---- MODULE Spec2Model ----
(***************************************************************************)
(* Model of src/main.py: the text normalizer, the size-preserving          *)
(* tokenizer, the matcher, the search ranking and the spreadsheet session  *)
(* state of the Google-Sheet search application.                           *)
(*                                                                         *)
(* A text is a sequence of characters.  A character is written as a short  *)
(* ASCII name:                                                             *)
(*   "m"   Cyrillic em  (U+043C)      "M"     Cyrillic capital em (U+041C) *)
(*   "c"   Cyrillic es  (U+0441)      "kh"    Cyrillic ha  (U+0445)        *)
(*   "x"   Latin x                    "times" multiplication sign (U+00D7) *)
(*   "*"   asterisk                   "sq"    superscript two (U+00B2)     *)
(*   "2" "5"  decimal digits          "." "," decimal separators           *)
(*   "^"   caret                      " "     space                        *)
(*   "a"   an ordinary letter         "!"     punctuation                  *)
(*   "yo"  Cyrillic io (U+0451)       "ye"    Cyrillic ie (U+0435)         *)
(*   "ndash" "mdash" dashes           "-"     hyphen                       *)
(*   "/" "d" "k" "?"  characters of a spreadsheet URL                      *)
(***************************************************************************)
EXTENDS Integers, Sequences, FiniteSets, TLC

VARIABLES
    pc,             \* which call of the run has returned
    text,           \* argument of normalize_text / split_preserve_sizes
    normalized,     \* normalize_text(text)
    renormalized,   \* normalize_text(normalize_text(text))
    scanned,        \* local `text` of split_preserve_sizes at line 102
    tokens,         \* split_preserve_sizes(text)
    prefix,         \* the part of text before a size expression
    num_a,          \* first number of the size expression in text
    num_b,          \* second number of the size expression in text
    row_text,       \* match_query argument
    query_words,    \* match_query argument
    require_all,    \* match_query argument
    score,          \* match_query return value
    table,          \* combined_df[column]: the cell texts, by row position
    search_query,   \* the search text input
    exact_match,    \* checkbox
    partial_match,  \* checkbox
    match_counts,   \* the __match_count column
    results,        \* row positions of the result frame, in display order
    sheet_id,       \* st.session_state.sheet_id
    combined_df,    \* st.session_state.combined_df
    sheet_url,      \* argument of the last load_data call
    ret,            \* return value of the last load_data call
    before,         \* <<sheet_id, combined_df>> when the last call started
    fetched,        \* <<id, table>> of the last fetch that gave a table
    fetch_outcome,  \* what opening the spreadsheet gave in the last call, None if not opened
    calls           \* number of load_data calls made

textVars    == <<text, normalized, renormalized, scanned, tokens, prefix, num_a, num_b>>
matchVars   == <<row_text, query_words, require_all, score>>
searchVars  == <<table, search_query, exact_match, partial_match, match_counts, results>>
sessionVars == <<sheet_id, combined_df, sheet_url, ret, before, fetched, fetch_outcome, calls>>
vars        == <<pc, textVars, matchVars, searchVars, sessionVars>>

None == "None"

\* extract_sheet_id found no id; session_state.sheet_id is None
NoId == <<"None">>

----------------------------------------------------------------------------
(* Character classes of Python's re module on str patterns.                *)

Digits == {"2", "5"}
Letters == {"m", "M", "c", "kh", "KH", "x", "a", "yo", "ye", "d", "k"}

\* \d : Unicode decimal digits; superscript two is category No, not a digit.
IsDigit(c) == c \in Digits

\* \s
IsSpace(c) == c = " "

\* \w : str.isalnum() or underscore; superscript two is alphanumeric.
IsWord(c) == c \in Letters \cup Digits \cup {"sq", "_"}

\* str.lower(), one character
LowerChar(c) == CASE c = "M"  -> "m"
                  [] c = "KH" -> "kh"
                  [] OTHER    -> c

\* str.lower()
Lower(s) == [i \in 1..Len(s) |-> LowerChar(s[i])]

\* s[i:].startswith(k), positions counted from 1
StartsAt(s, k, i) ==
    /\ i + Len(k) - 1 <= Len(s)
    /\ \A j \in 1..Len(k) : s[i + j - 1] = k[j]

\* str.replace(k, v): leftmost non-overlapping occurrences, from position i on
RECURSIVE ReplaceFrom(_, _, _, _)
ReplaceFrom(s, k, v, i) ==
    IF i > Len(s) THEN <<>>
    ELSE IF StartsAt(s, k, i) THEN v \o ReplaceFrom(s, k, v, i + Len(k))
    ELSE <<s[i]>> \o ReplaceFrom(s, k, v, i + 1)

Replace(s, k, v) == ReplaceFrom(s, k, v, 1)

\* first position >= i that holds no whitespace (\s* consumed greedily)
RECURSIVE SkipSpaces(_, _)
SkipSpaces(s, i) ==
    IF i <= Len(s) /\ IsSpace(s[i]) THEN SkipSpaces(s, i + 1) ELSE i

\* first position >= i that holds no digit (\d+ consumed greedily)
RECURSIVE SkipDigits(_, _)
SkipDigits(s, i) ==
    IF i <= Len(s) /\ IsDigit(s[i]) THEN SkipDigits(s, i + 1) ELSE i

\* first position >= i that holds no word character (\w+ consumed greedily)
RECURSIVE SkipWord(_, _)
SkipWord(s, i) ==
    IF i <= Len(s) /\ IsWord(s[i]) THEN SkipWord(s, i + 1) ELSE i

\* \d+(?:[.,]\d+)? at position i: the position after the match, 0 if none
MatchNumber(s, i) ==
    LET j == SkipDigits(s, i) IN
    IF j = i THEN 0
    ELSE IF j + 1 <= Len(s) /\ s[j] \in {".", ","} /\ IsDigit(s[j + 1])
         THEN SkipDigits(s, j + 1)
         ELSE j

\* \b between positions i-1 and i
WordAt(s, i) == i >= 1 /\ i <= Len(s) /\ IsWord(s[i])
WordBoundary(s, i) == WordAt(s, i - 1) # WordAt(s, i)

SubText(s, i, j) == [n \in 1..(j - i) |-> s[i + n - 1]]

----------------------------------------------------------------------------
(* DataProcessor.normalize_text                                            *)

MM2 == <<"m", "m", "sq">>
CM2 == <<"c", "m", "sq">>
M2  == <<"m", "sq">>

\* the replacements dict, in insertion order
replacements == <<
    << <<"kh">>,               <<"x">> >>,
    << <<"ndash">>,            <<"-">> >>,
    << <<"mdash">>,            <<"-">> >>,
    << <<"yo">>,               <<"ye">> >>,
    << <<"m", "m", "2">>,      MM2 >>,
    << <<"m", "m", "^", "2">>, MM2 >>,
    << <<"c", "m", "2">>,      CM2 >>,
    << <<"c", "m", "^", "2">>, CM2 >>,
    << <<"m", "2">>,           M2 >>,
    << <<"m", "^", "2">>,      M2 >> >>

\* for k, v in replacements.items(): text = text.replace(k, v)
RECURSIVE ApplyReplacements(_, _)
ApplyReplacements(s, n) ==
    IF n > Len(replacements) THEN s
    ELSE ApplyReplacements(Replace(s, replacements[n][1], replacements[n][2]), n + 1)

\* one of the unit symbols stands at position i: its length, 0 if none
UnitAt(s, i) ==
    IF StartsAt(s, MM2, i) THEN 3
    ELSE IF StartsAt(s, CM2, i) THEN 3
    ELSE IF StartsAt(s, M2, i) THEN 2
    ELSE 0

\* re.sub(r'(?<=\d)\s+(?=unit)', '', text)
RECURSIVE StripUnitSpaceFrom(_, _)
StripUnitSpaceFrom(s, i) ==
    IF i > Len(s) THEN <<>>
    ELSE IF /\ i > 1
            /\ IsDigit(s[i - 1])
            /\ IsSpace(s[i])
            /\ UnitAt(s, SkipSpaces(s, i)) > 0
         THEN StripUnitSpaceFrom(s, SkipSpaces(s, i))
         ELSE <<s[i]>> \o StripUnitSpaceFrom(s, i + 1)

StripUnitSpace(s) == StripUnitSpaceFrom(s, 1)

\* normalize_text with lines 77-78 and line 81 in the opposite order
normalize_text_strip_first(s) == ApplyReplacements(StripUnitSpace(Lower(s)), 1)

normalize_text(s) == StripUnitSpace(ApplyReplacements(Lower(s), 1))

----------------------------------------------------------------------------
(* DataProcessor.split_preserve_sizes                                      *)

\* the separator class without the multiplication sign and the asterisk
SeparatorsLetters == {"x", "kh"}

Separators == {"x", "kh", "times", "*"}

\* (\d+(?:[.,]\d+)?)\s*[x kh times *]\s*(\d+(?:[.,]\d+)?) at position i:
\* <<end of group 1, start of group 2, end of group 2>>, <<0, 0, 0>> if none
MatchSize(s, i) ==
    LET a == MatchNumber(s, i)
        p == IF a = 0 THEN 0 ELSE SkipSpaces(s, a)
        q == IF p = 0 \/ p > Len(s) THEN 0
             ELSE IF s[p] \in Separators THEN SkipSpaces(s, p + 1) ELSE 0
        b == IF q = 0 THEN 0 ELSE MatchNumber(s, q)
    IN IF b = 0 THEN <<0, 0, 0>> ELSE <<a, q, b>>

\* re.sub(size pattern, r'\1x\2', text)
RECURSIVE MergeSizesFrom(_, _)
MergeSizesFrom(s, i) ==
    IF i > Len(s) THEN <<>>
    ELSE LET m == MatchSize(s, i) IN
         IF m[3] > 0
         THEN SubText(s, i, m[1]) \o <<"x">> \o SubText(s, m[2], m[3])
                  \o MergeSizesFrom(s, m[3])
         ELSE <<s[i]>> \o MergeSizesFrom(s, i + 1)

MergeSizes(s) == MergeSizesFrom(s, 1)

\* \b<letters>\s*[\^]?\s*2\b at position i: the position after the match, 0 if none
MatchSpacedUnit(s, letters, i) ==
    IF ~(WordBoundary(s, i) /\ StartsAt(s, letters, i)) THEN 0
    ELSE LET j == SkipSpaces(s, i + Len(letters))
             k == IF j <= Len(s) /\ s[j] = "^" THEN j + 1 ELSE j
             n == SkipSpaces(s, k)
         IN IF n <= Len(s) /\ s[n] = "2" /\ WordBoundary(s, n + 1)
            THEN n + 1 ELSE 0

\* re.sub(r'\b<letters>\s*[\^]?\s*2\b', unit, text)
RECURSIVE CollapseUnitFrom(_, _, _, _)
CollapseUnitFrom(s, letters, unit, i) ==
    IF i > Len(s) THEN <<>>
    ELSE LET e == MatchSpacedUnit(s, letters, i) IN
         IF e > 0 THEN unit \o CollapseUnitFrom(s, letters, unit, e)
         ELSE <<s[i]>> \o CollapseUnitFrom(s, letters, unit, i + 1)

CollapseUnit(s, letters, unit) == CollapseUnitFrom(s, letters, unit, 1)

\* lines 97-99, in order
CollapseUnits(s) ==
    CollapseUnit(CollapseUnit(CollapseUnit(s, <<"m", "m">>, MM2),
                              <<"c", "m">>, CM2),
                 <<"m">>, M2)

\* \d+(?:[.,]\d+)?x\d+(?:[.,]\d+)? at position i: position after it, 0 if none
MatchCompound(s, i) ==
    LET a == MatchNumber(s, i) IN
    IF a = 0 \/ a > Len(s) THEN 0
    ELSE IF s[a] = "x" THEN MatchNumber(s, a + 1) ELSE 0

Max3(a, b, c) ==
    IF a >= b /\ a >= c THEN a ELSE IF b >= c THEN b ELSE c

\* the alternation read as longest-match instead of first-match
TokenEndLongest(s, i) ==
    Max3(MatchCompound(s, i),
         IF UnitAt(s, i) > 0 THEN i + UnitAt(s, i) ELSE 0,
         IF IsWord(s[i]) THEN SkipWord(s, i) ELSE 0)

\* the alternation compound|unit|unit|unit|\w+ at position i: the first
\* alternative that matches decides; position after the match, 0 if none
TokenEnd(s, i) ==
    IF MatchCompound(s, i) > 0 THEN MatchCompound(s, i)
    ELSE IF UnitAt(s, i) > 0 THEN i + UnitAt(s, i)
    ELSE IF IsWord(s[i]) THEN SkipWord(s, i)
    ELSE 0

\* re.finditer: the <<start, end>> spans of the matches from position i on
RECURSIVE TokenSpansFrom(_, _)
TokenSpansFrom(s, i) ==
    IF i > Len(s) THEN <<>>
    ELSE LET e == TokenEnd(s, i) IN
         IF e > 0 THEN << <<i, e>> >> \o TokenSpansFrom(s, e)
         ELSE TokenSpansFrom(s, i + 1)

TokenSpans(s) == TokenSpansFrom(s, 1)

\* re.findall
FindAll(s) ==
    LET sp == TokenSpans(s) IN [n \in 1..Len(sp) |-> SubText(s, sp[n][1], sp[n][2])]

\* the text handed to re.findall at line 102
PreparedText(s) == CollapseUnits(MergeSizes(normalize_text(s)))

split_preserve_sizes(s) == FindAll(PreparedText(s))

Range(f) == {f[i] : i \in DOMAIN f}

----------------------------------------------------------------------------
(* DataProcessor.match_query                                               *)

\* the sum taken over row_words instead:
\* sum(1 for word in row_words if word in query_words)
CountRowSide(qw, row_words, i) ==
    Cardinality({j \in 1..Len(row_words) : \E n \in i..Len(qw) : row_words[j] = qw[n]})

\* sum(1 for word in query_words if word in row_words)
RECURSIVE CountPresent(_, _, _)
CountPresent(qw, row_words, i) ==
    IF i > Len(qw) THEN 0
    ELSE (IF \E j \in 1..Len(row_words) : row_words[j] = qw[i] THEN 1 ELSE 0)
             + CountPresent(qw, row_words, i + 1)

\* match_query without lines 110-111
match_query_count_only(rt, qw, ra) ==
    CountPresent(qw, split_preserve_sizes(rt), 1)

match_query(rt, qw, ra) ==
    LET row_words == split_preserve_sizes(rt)
        match_count == CountPresent(qw, row_words, 1)
    IN IF ra
       THEN (IF match_count = Len(qw) THEN match_count ELSE 0)
       ELSE match_count

----------------------------------------------------------------------------
(* GoogleSheetSearchApp.show_main_app, lines 264-285: the search           *)

\* the filter written >= 0
FilterNonNegative(counts, i) == [n \in 1..(Len(counts) - i + 1) |-> i + n - 1]

\* combined_df[combined_df['__match_count'] > 0]: the row positions kept,
\* a boolean mask keeps them in table order
RECURSIVE FilterPositive(_, _)
FilterPositive(counts, i) ==
    IF i > Len(counts) THEN <<>>
    ELSE (IF counts[i] > 0 THEN <<i>> ELSE <<>>) \o FilterPositive(counts, i + 1)

\* results.sort_values(by='__match_count', ascending=False): the sort kind is
\* left at the default 'quicksort', which pandas documents as not stable, so
\* every descending order of the rows is a possible outcome
SortValuesDescending(counts, rows) ==
    {p \in [1..Len(rows) -> Range(rows)] :
        /\ \A n, k \in 1..Len(rows) : n # k => p[n] # p[k]
        /\ \A n \in 1..(Len(rows) - 1) : counts[p[n]] >= counts[p[n + 1]]}

\* lines 267-269: both checkboxes ticked, warning and return
SearchWarn ==
    /\ pc = "search_input"
    /\ exact_match /\ partial_match
    /\ pc' = "warned"
    /\ UNCHANGED <<textVars, matchVars, searchVars, sessionVars>>

\* line 271: an empty search text runs no search
SearchSkip ==
    /\ pc = "search_input"
    /\ ~(exact_match /\ partial_match)
    /\ search_query = <<>>
    /\ pc' = "idle"
    /\ UNCHANGED <<textVars, matchVars, searchVars, sessionVars>>

\* lines 271-285
Search ==
    /\ pc = "search_input"
    /\ ~(exact_match /\ partial_match)
    /\ search_query # <<>>
    /\ LET qw == split_preserve_sizes(search_query)
           ra == exact_match /\ ~partial_match
           counts == [i \in 1..Len(table) |-> match_query(table[i], qw, ra)]
       IN match_counts' = counts
    /\ results' \in SortValuesDescending(match_counts', FilterPositive(match_counts', 1))
    /\ pc' = "searched"
    /\ UNCHANGED <<textVars, matchVars, table, search_query, exact_match,
                   partial_match, sessionVars>>

----------------------------------------------------------------------------
(* GoogleSheetsConnector.extract_sheet_id and GoogleSheetSearchApp.load_data *)

\* [a-zA-Z0-9-_]
IsIdChar(c) == c \in {"d", "k", "x", "2", "5", "-", "_"}

RECURSIVE SkipIdChars(_, _)
SkipIdChars(s, i) ==
    IF i <= Len(s) /\ IsIdChar(s[i]) THEN SkipIdChars(s, i + 1) ELSE i

\* re.search(r"/d/([a-zA-Z0-9-_]+)", url) from position i on
RECURSIVE ExtractFrom(_, _)
ExtractFrom(url, i) ==
    IF i > Len(url) THEN NoId
    ELSE IF StartsAt(url, <<"/", "d", "/">>, i) /\ SkipIdChars(url, i + 3) > i + 3
         THEN SubText(url, i + 3, SkipIdChars(url, i + 3))
         ELSE ExtractFrom(url, i + 1)

extract_sheet_id(url) == ExtractFrom(url, 1)

\* what open_by_key and process_sheets can produce for a call: an exception,
\* no worksheet with data, or the concatenated table
Tables == {"table_1", "table_2"}
Outcomes == {"raise", "no_data"} \cup Tables

\* the body of load_data with the assignment to session_state.sheet_id moved
\* before the check of all_data
load_data_id_first(url, outcome) ==
    LET id == extract_sheet_id(url) IN
    /\ sheet_url' = url
    /\ before' = <<sheet_id, combined_df>>
    /\ IF id = NoId
       THEN /\ ret' = FALSE
            /\ fetch_outcome' = None
            /\ UNCHANGED <<sheet_id, combined_df, fetched>>
       ELSE IF sheet_id # id
       THEN /\ fetch_outcome' = outcome
            /\ IF outcome \in Tables
               THEN /\ combined_df' = outcome
                    /\ sheet_id' = id
                    /\ fetched' = <<id, outcome>>
                    /\ ret' = TRUE
               ELSE /\ ret' = FALSE
                    /\ sheet_id' = IF outcome = "no_data" THEN id ELSE sheet_id
                    /\ UNCHANGED <<combined_df, fetched>>
       ELSE /\ ret' = TRUE
            /\ fetch_outcome' = None
            /\ UNCHANGED <<sheet_id, combined_df, fetched>>

load_data(url, outcome) ==
    LET id == extract_sheet_id(url) IN
    /\ sheet_url' = url
    /\ before' = <<sheet_id, combined_df>>
    /\ IF id = NoId
       THEN /\ ret' = FALSE
            /\ fetch_outcome' = None
            /\ UNCHANGED <<sheet_id, combined_df, fetched>>
       ELSE IF sheet_id # id
       THEN /\ fetch_outcome' = outcome
            /\ IF outcome \in Tables
               THEN /\ combined_df' = outcome
                    /\ sheet_id' = id
                    /\ fetched' = <<id, outcome>>
                    /\ ret' = TRUE
               ELSE /\ ret' = FALSE
                    /\ UNCHANGED <<sheet_id, combined_df, fetched>>
       ELSE /\ ret' = TRUE
            /\ fetch_outcome' = None
            /\ UNCHANGED <<sheet_id, combined_df, fetched>>

----------------------------------------------------------------------------
(* Bounds and input sets                                                   *)

MaxNormLen  == 4    \* longest text given to normalize_text
MaxTokLen   == 4    \* longest text given to split_preserve_sizes
MaxWs       == 1    \* most whitespace on one side of a size separator
MaxRowLen   == 3    \* longest row text given to match_query
MaxQuery    == 2    \* most query tokens given to match_query
MaxRows     == 2    \* most rows of the searched table
MaxQueryLen == 2    \* longest search text
MaxCalls    == 3    \* most load_data calls of a session

TextsUpTo(alphabet, n) == UNION {[1..k -> alphabet] : k \in 0..n}

NormAlphabet == {"m", "M", "c", "2", "^", " ", "sq", "kh"}
TokAlphabet  == {"m", "2", "x", "sq", " ", "^", "."}
RowAlphabet  == {"a", "2", "x", " "}
QueryTokens  == {<<"a">>, <<"2">>, <<"2", "x", "2">>}
QueryAlphabet == {"a", "2", "!", " "}
RowPool      == {<<"a">>, <<"a", " ", "2">>, <<"2", "!", "a", " ", "a">>}

\* numbers: digits, optionally a '.' or ',' and more digits
SizeNumbers == {<<"2">>, <<"5">>, <<"2", "5">>, <<"2", ".", "5">>,
                <<"2", ",", "5">>, <<"5", ".", "2", "2">>, <<"5", "2", ",", "5">>}

\* text before a size expression: nothing, or a word and a space
SizePrefixes == {<<>>, <<"a", " ">>, <<"m", " ">>, <<"m", "m", " ">>, <<"c", "m", " ">>}

\* the separator characters written in the input texts
SizeSeparators == {"x", "kh", "times", "*"}

Spaces(n) == [i \in 1..n |-> " "]

SheetUrls == {<<"d", "/", "k">>,
              <<"/", "d", "/">>,
              <<"/", "d", "/", "?", "k">>,
              <<"/", "d", "/", "k">>,
              <<"k", "/", "d", "/", "k", "/", "d">>,
              <<"/", "d", "/", "d", "-", "k", "?">>,
              <<"/", "d", "/", "/", "d", "/", "d">>,
              <<"/", "d", "/", "k", "2">>}

----------------------------------------------------------------------------
(* Specifications                                                          *)

IdleText    == /\ text = None /\ normalized = None /\ renormalized = None
               /\ scanned = None /\ tokens = None
               /\ prefix = None /\ num_a = None /\ num_b = None
IdleMatch   == /\ row_text = None /\ query_words = None
               /\ require_all = None /\ score = None
IdleSearch  == /\ table = None /\ search_query = None /\ exact_match = None
               /\ partial_match = None /\ match_counts = None /\ results = None
IdleSession == /\ sheet_id = NoId /\ combined_df = None /\ sheet_url = None
               /\ ret = None /\ before = <<NoId, None>> /\ fetched = <<NoId, None>>
               /\ fetch_outcome = None /\ calls = 0

\* normalize_text(text)
Normalize ==
    /\ pc = "text_input"
    /\ normalized' = normalize_text(text)
    /\ pc' = "normalized"
    /\ UNCHANGED <<text, renormalized, scanned, tokens, prefix, num_a, num_b, matchVars, searchVars, sessionVars>>

\* normalize_text(normalize_text(text))
Renormalize ==
    /\ pc = "normalized"
    /\ renormalized' = normalize_text(normalized)
    /\ pc' = "renormalized"
    /\ UNCHANGED <<text, normalized, scanned, tokens, prefix, num_a, num_b, matchVars, searchVars, sessionVars>>

\* split_preserve_sizes(text)
Split ==
    /\ pc = "split_input"
    /\ normalized' = normalize_text(text)
    /\ scanned' = PreparedText(text)
    /\ tokens' = split_preserve_sizes(text)
    /\ pc' = "split"
    /\ UNCHANGED <<text, renormalized, prefix, num_a, num_b, matchVars, searchVars, sessionVars>>

\* match_query(row_text, query_words, require_all)
Match ==
    /\ pc = "match_input"
    /\ score' = match_query(row_text, query_words, require_all)
    /\ pc' = "matched"
    /\ UNCHANGED <<textVars, row_text, query_words, require_all, searchVars, sessionVars>>

\* a rerun of the page with a spreadsheet link typed in
LoadData ==
    /\ pc = "session"
    /\ calls < MaxCalls
    /\ calls' = calls + 1
    /\ \E url \in SheetUrls, outcome \in Outcomes : load_data(url, outcome)
    /\ UNCHANGED <<pc, textVars, matchVars, searchVars>>

InitNorm ==
    /\ pc = "text_input"
    /\ text \in TextsUpTo(NormAlphabet, MaxNormLen)
    /\ normalized = None /\ renormalized = None /\ scanned = None /\ tokens = None
    /\ prefix = None /\ num_a = None /\ num_b = None
    /\ IdleMatch /\ IdleSearch /\ IdleSession

InitTok ==
    /\ pc = "split_input"
    /\ text \in TextsUpTo(TokAlphabet, MaxTokLen)
    /\ normalized = None /\ renormalized = None /\ scanned = None /\ tokens = None
    /\ prefix = None /\ num_a = None /\ num_b = None
    /\ IdleMatch /\ IdleSearch /\ IdleSession

\* text is "<prefix><a><spaces><separator><spaces><b>"
InitSize ==
    /\ pc = "split_input"
    /\ prefix \in SizePrefixes
    /\ num_a \in SizeNumbers
    /\ num_b \in SizeNumbers
    /\ \E sep \in SizeSeparators, w1 \in 0..MaxWs, w2 \in 0..MaxWs :
          text = prefix \o num_a \o Spaces(w1) \o <<sep>> \o Spaces(w2) \o num_b
    /\ normalized = None /\ renormalized = None /\ scanned = None /\ tokens = None
    /\ IdleMatch /\ IdleSearch /\ IdleSession

InitMatch ==
    /\ pc = "match_input"
    /\ row_text \in TextsUpTo(RowAlphabet, MaxRowLen)
    /\ query_words \in TextsUpTo(QueryTokens, MaxQuery)
    /\ require_all \in BOOLEAN
    /\ score = None
    /\ IdleText /\ IdleSearch /\ IdleSession

InitSearch ==
    /\ pc = "search_input"
    /\ table \in TextsUpTo(RowPool, MaxRows) \ {<<>>}
    /\ search_query \in TextsUpTo(QueryAlphabet, MaxQueryLen)
    /\ exact_match \in BOOLEAN
    /\ partial_match \in BOOLEAN
    /\ match_counts = None /\ results = None
    /\ IdleText /\ IdleMatch /\ IdleSession

\* initialize_session_state on a fresh session
InitSession ==
    /\ pc = "session"
    /\ sheet_id = NoId /\ combined_df = None
    /\ sheet_url = None /\ ret = None
    /\ before = <<NoId, None>> /\ fetched = <<NoId, None>>
    /\ fetch_outcome = None /\ calls = 0
    /\ IdleText /\ IdleMatch /\ IdleSearch

NextNorm    == Normalize \/ Renormalize
NextSearch  == Search \/ SearchWarn \/ SearchSkip

SpecNorm    == InitNorm /\ [][NextNorm]_vars
SpecTok     == InitTok /\ [][Split]_vars
SpecSize    == InitSize /\ [][Split]_vars
SpecMatch   == InitMatch /\ [][Match]_vars
SpecSearch  == InitSearch /\ [][NextSearch]_vars
SpecSession == InitSession /\ [][LoadData]_vars

Init == InitNorm \/ InitTok \/ InitSize \/ InitMatch \/ InitSearch \/ InitSession
Next == Normalize \/ Renormalize \/ Split \/ Match \/ Search \/ SearchWarn
            \/ SearchSkip \/ LoadData
Spec == Init /\ [][Next]_vars

----------------------------------------------------------------------------
(* Properties                                                              *)

RowTokens == Range(split_preserve_sizes(row_text))

\* C1: with require_all=True match_query returns len(query_words) when every
\* query token is among the row's tokens and 0 when at least one is missing,
\* never a value in between.
AllOrNothing ==
    (pc = "matched" /\ require_all) =>
        score = IF \A i \in 1..Len(query_words) : query_words[i] \in RowTokens
                THEN Len(query_words) ELSE 0

\* a require_all match where one query token is in the row and another is not
AllOrNothingWitness ==
    /\ pc = "matched" /\ require_all /\ score = 0
    /\ \E i \in 1..Len(query_words) : query_words[i] \in RowTokens
    /\ \E i \in 1..Len(query_words) : query_words[i] \notin RowTokens

\* C2: with require_all=False match_query returns the number of positions of
\* query_words whose token occurs among the row's tokens (a repeated query
\* token counts each time, a repeated row token counts once), so the result
\* lies between 0 and len(query_words).
PartialCountsPositions ==
    (pc = "matched" /\ ~require_all) =>
        /\ score = Cardinality({i \in 1..Len(query_words) : query_words[i] \in RowTokens})
        /\ score \in 0..Len(query_words)

\* a partial match of a repeated query token against a row that repeats it too
PartialCountsWitness ==
    /\ pc = "matched" /\ ~require_all
    /\ Len(query_words) = 2 /\ query_words[1] = query_words[2]
    /\ score = 2
    /\ LET rw == split_preserve_sizes(row_text) IN
           \E j, k \in 1..Len(rw) : j # k /\ rw[j] = rw[k] /\ rw[j] = query_words[1]

\* a unit symbol starts at position i of s and is not the tail of a longer one
UnitStandsAt(s, i) ==
    /\ UnitAt(s, i) > 0
    /\ ~(i > 1 /\ UnitAt(s, i - 1) = Len(MM2))

\* C3: every unit symbol that stands in the normalized text comes out of
\* split_preserve_sizes as a token of its own, equal to that symbol, also
\* directly after a number.
UnitsAreAtomic ==
    pc = "split" =>
        \A i \in 1..Len(normalized) :
            UnitStandsAt(normalized, i) =>
                SubText(normalized, i, i + UnitAt(normalized, i)) \in Range(tokens)

\* C4: for a text holding <number><separator><number> the tokens contain the
\* compound token <number>x<number> whatever precedes the first number, and no
\* digit of the size expression is rewritten to the exponent.
SizesNeverFragmented ==
    pc = "split" =>
        /\ (num_a \o <<"x">> \o num_b) \in Range(tokens)
        /\ "sq" \notin Range(scanned)

\* C5: "a<sep>b" with any separator variant and any whitespace around it
\* tokenizes to exactly the one token a + "x" + b, each number keeping its own
\* decimal separator.
SeparatorVariants ==
    (pc = "split" /\ prefix = <<>>) =>
        tokens = << num_a \o <<"x">> \o num_b >>

\* "2,5 <times> 5.22": a non-letter separator with whitespace on both sides
SeparatorVariantsWitness ==
    /\ pc = "split" /\ prefix = <<>>
    /\ text = <<"2", ",", "5", " ", "times", " ", "5", ".", "2", "2">>
    /\ tokens = << <<"2", ",", "5", "x", "5", ".", "2", "2">> >>

\* no key of the replacements dict occurs in s
NoKeyIn(s) ==
    \A n \in 1..Len(replacements) : \A i \in 1..Len(s) : ~StartsAt(s, replacements[n][1], i)

\* C6: normalize_text is idempotent; neither the ten replacements nor the
\* digit-unit whitespace removal leave text that a replacement would match.
NormalizeIdempotent ==
    /\ pc \in {"normalized", "renormalized"} => NoKeyIn(normalized)
    /\ pc = "renormalized" => renormalized = normalized

\* a text in which a unit was rewritten and whitespace before it removed
NormalizeIdempotentWitness ==
    /\ pc = "renormalized"
    /\ "sq" \notin Range(text) /\ "sq" \in Range(normalized)
    /\ Len(normalized) < Len(text)

\* C7: the result holds exactly the rows with a score > 0, by non-increasing
\* score, rows of equal score in their original relative order.
RankingStable ==
    pc = "searched" =>
        /\ Range(results) = {i \in 1..Len(table) : match_counts[i] > 0}
        /\ \A n, k \in 1..Len(results) :
               n < k => \/ match_counts[results[n]] > match_counts[results[k]]
                        \/ /\ match_counts[results[n]] = match_counts[results[k]]
                           /\ results[n] < results[k]

\* C8: an empty query scores 0 on every row in both modes, so a search whose
\* text tokenizes to nothing returns no rows.
EmptyQueryMatchesNothing ==
    (pc = "searched" /\ split_preserve_sizes(search_query) = <<>>) =>
        /\ \A i \in 1..Len(table) :
               /\ match_query(table[i], <<>>, TRUE) = 0
               /\ match_query(table[i], <<>>, FALSE) = 0
               /\ match_counts[i] = 0
        /\ results = <<>>

\* a search for punctuation only over a table of two rows, exact mode
EmptyQueryWitness ==
    /\ pc = "searched"
    /\ search_query = <<"!", " ">>
    /\ exact_match /\ ~partial_match
    /\ Len(table) > 1
    /\ results = <<>>

\* the three candidate matches at position i of s: position after each, 0 if none
CompoundCandidate(s, i) == MatchCompound(s, i)
UnitCandidate(s, i) == IF UnitAt(s, i) > 0 THEN i + UnitAt(s, i) ELSE 0
WordCandidate(s, i) == IF IsWord(s[i]) THEN SkipWord(s, i) ELSE 0

\* the tokens are cut from the scanned text left to right, and the characters
\* between them start no candidate
ScanIsLeftToRight(sp) ==
    /\ tokens = [n \in 1..Len(sp) |-> SubText(scanned, sp[n][1], sp[n][2])]
    /\ \A n \in 1..Len(sp) : sp[n][1] < sp[n][2]
    /\ \A n \in 1..(Len(sp) - 1) : sp[n][2] <= sp[n + 1][1]
    /\ \A i \in 1..Len(scanned) :
           (\A n \in 1..Len(sp) : i < sp[n][1] \/ i >= sp[n][2]) =>
               Max3(CompoundCandidate(scanned, i), UnitCandidate(scanned, i),
                    WordCandidate(scanned, i)) = 0

\* C9 as stated: each token is the longest of the three candidates at its
\* starting position.
TokensAreLongestCandidate ==
    pc = "split" =>
        LET sp == TokenSpans(scanned) IN
        /\ ScanIsLeftToRight(sp)
        /\ \A n \in 1..Len(sp) :
               sp[n][2] = Max3(CompoundCandidate(scanned, sp[n][1]),
                               UnitCandidate(scanned, sp[n][1]),
                               WordCandidate(scanned, sp[n][1]))

\* C9 amended: each token is the first candidate that matches at its starting
\* position, in the order compound size, unit symbol, word run, also when a
\* later candidate is longer.
TokensAreFirstCandidate ==
    pc = "split" =>
        LET sp == TokenSpans(scanned) IN
        /\ ScanIsLeftToRight(sp)
        /\ \A n \in 1..Len(sp) :
               LET i == sp[n][1] IN
               sp[n][2] = IF CompoundCandidate(scanned, i) > 0 THEN CompoundCandidate(scanned, i)
                          ELSE IF UnitCandidate(scanned, i) > 0 THEN UnitCandidate(scanned, i)
                          ELSE WordCandidate(scanned, i)

\* "2x2" followed by a letter: the compound size is the token although the
\* word run starting there is longer
TokensAreFirstCandidateWitness ==
    /\ pc = "split"
    /\ scanned = <<"2", "x", "2", "m">>
    /\ tokens = << <<"2", "x", "2">>, <<"m">> >>

\* C10: sheet_id is set exactly when combined_df is set, and combined_df is
\* the table fetched for sheet_id; a failing load_data call returns False and
\* changes neither; a call for the loaded id returns True without fetching.
SessionConsistent ==
    /\ (sheet_id = NoId) <=> (combined_df = None)
    /\ sheet_id # NoId => fetched = <<sheet_id, combined_df>>
    /\ (pc = "session" /\ calls > 0) =>
        LET id == extract_sheet_id(sheet_url) IN
        /\ (id = NoId \/ fetch_outcome \in {"raise", "no_data"}) =>
               (ret = FALSE /\ <<sheet_id, combined_df>> = before)
        /\ (id # NoId /\ id = before[1]) =>
               (ret = TRUE /\ fetch_outcome = None /\ <<sheet_id, combined_df>> = before)
        /\ (id # NoId /\ id # before[1]) => fetch_outcome # None
        /\ ret = TRUE => sheet_id = id

\* a load that raised after another spreadsheet had been loaded
SessionConsistentWitness ==
    /\ pc = "session"
    /\ sheet_id # NoId /\ combined_df \in Tables
    /\ ret = FALSE /\ fetch_outcome = "raise"
    /\ extract_sheet_id(sheet_url) # sheet_id

====
